---- MODULE Spec2Model ----
(***************************************************************************)
(* Palisades Fire dashboard: the request pipeline of                       *)
(* code/src/dashboards/streamlit/palisades_fire_app.py.                    *)
(*                                                                         *)
(* Earth Engine objects are lazy handles; the model carries what a handle  *)
(* denotes once the service evaluates it.  A handle whose evaluation the   *)
(* service rejects (a band selected from an image that lacks it) has       *)
(* ok = FALSE: building it raises nothing on the client.                   *)
(* Pixel values are exact rationals [n, d] with d > 0.                     *)
(* Dates are day numbers relative to the fire start (2025-01-07 = day 0).  *)
(* ee_env is what the process finds when it starts: the Streamlit secret,  *)
(* the GEE_PROJECT_ID variable, the arguments of a direct initialize_ee     *)
(* call and how the Earth Engine client answers.                           *)
(***************************************************************************)
EXTENDS Integers, Sequences, FiniteSets, TLC

VARIABLES pc, ee_env, collection, gee_available, config, aoi, imagery, indices,
          stats, calls, remote_calls, warnings, raised, faults

vars == <<pc, ee_env, collection, gee_available, config, aoi, imagery, indices,
          stats, calls, remote_calls, warnings, raised, faults>>

----------------------------------------------------------------------------
(* Bounds *)

NPix == 2
MaxItems == 2

----------------------------------------------------------------------------
(* Program constants *)

LookbackDays == 180
LookaheadDays == 30
CloudBefore == 20
CloudAfter == 30
Scale == 30
MaxPixels == 1000000000
SqmPerHectare == 10000

nir_band == "B8"
red_band == "B4"
swir_band == "B12"
green_band == "B3"
required_bands == {nir_band, red_band, swir_band, green_band}

\* bands of a COPERNICUS/S2_SR_HARMONIZED item the dashboard reads
S2Bands == {"B2", "B3", "B4", "B8", "B12"}

IndexKeys == {"nbr_before", "nbr_after", "dnbr", "ndvi_before", "ndvi_after",
              "ndwi_before", "ndwi_after"}

\* pixel 0 lies outside PALISADES_FIRE_BBOX, pixels 1..NPix inside it
Pixels == 0..NPix
PALISADES_FIRE_BBOX == 1..NPix

----------------------------------------------------------------------------
(* Exact rational arithmetic on [n, d], d > 0 *)

Rat(n, d) == [n |-> n, d |-> d]
RLt(x, y) == x.n * y.d < y.n * x.d
RGte(x, y) == x.n * y.d >= y.n * x.d
REq(x, y) == x.n * y.d = y.n * x.d
RECURSIVE Gcd(_, _)
Gcd(a, b) == IF b = 0 THEN a ELSE Gcd(b, a % b)
Abs(a) == IF a < 0 THEN -a ELSE a
\* lowest terms
Reduce(x) == LET g == Gcd(Abs(x.n), x.d) IN Rat(x.n \div g, x.d \div g)
RSub(x, y) == Reduce(Rat(x.n * y.d - y.n * x.d, x.d * y.d))
RAdd(x, y) == Reduce(Rat(x.n * y.d + y.n * x.d, x.d * y.d))
RDiv(x, k) == Rat(x.n, x.d * k)
RNeg(x) == Rat(-(x.n), x.d)

----------------------------------------------------------------------------
(* Single-band rasters: [ok, name, px], px[p] = [valid, v] *)

Masked == [valid |-> FALSE, v |-> Rat(0, 1)]
Val(x) == [valid |-> TRUE, v |-> x]

\* a handle the service cannot evaluate
Invalid(nm) == [ok |-> FALSE, name |-> nm, px |-> [p \in Pixels |-> Masked]]

\* ee.Image(c): the constant image, unmasked everywhere
Image(c) == [ok |-> TRUE, name |-> "constant", px |-> [p \in Pixels |-> Val(Rat(c, 1))]]

rename(r, nm) == [r EXCEPT !.name = nm]

Bool(b) == IF b THEN Rat(1, 1) ELSE Rat(0, 1)

\* Image.lt(c), Image.gte(c): 1 where the comparison holds, mask kept
lt(r, c) == [r EXCEPT !.px = [p \in Pixels |->
               IF r.px[p].valid THEN Val(Bool(RLt(r.px[p].v, c))) ELSE Masked]]
gte(r, c) == [r EXCEPT !.px = [p \in Pixels |->
               IF r.px[p].valid THEN Val(Bool(RGte(r.px[p].v, c))) ELSE Masked]]
gt(r, c) == [r EXCEPT !.px = [p \in Pixels |->
               IF r.px[p].valid THEN Val(Bool(RLt(c, r.px[p].v))) ELSE Masked]]
\* Image.eq(i)
eq(r, c) == [r EXCEPT !.px = [p \in Pixels |->
               IF r.px[p].valid THEN Val(Bool(REq(r.px[p].v, c))) ELSE Masked]]
\* Image.And(other): 1 where both are non-zero
And(r, s) == [ok |-> r.ok /\ s.ok, name |-> r.name, px |-> [p \in Pixels |->
               IF r.px[p].valid /\ s.px[p].valid
               THEN Val(Bool(r.px[p].v.n # 0 /\ s.px[p].v.n # 0)) ELSE Masked]]
\* Image.where(test, value): value where test is non-zero, else the input
where(r, test, c) == [ok |-> r.ok /\ test.ok, name |-> r.name, px |-> [p \in Pixels |->
               IF r.px[p].valid /\ test.px[p].valid
               THEN (IF test.px[p].v.n # 0 THEN Val(Rat(c, 1)) ELSE r.px[p])
               ELSE Masked]]
\* Image.subtract(other)
subtract(r, s) == [ok |-> r.ok /\ s.ok, name |-> r.name, px |-> [p \in Pixels |->
               IF r.px[p].valid /\ s.px[p].valid
               THEN Val(RSub(r.px[p].v, s.px[p].v)) ELSE Masked]]
\* Image.divide(k) by a positive constant
divide(r, k) == [r EXCEPT !.px = [p \in Pixels |->
               IF r.px[p].valid THEN Val(RDiv(r.px[p].v, k)) ELSE Masked]]
\* Image.updateMask(mask): valid only where the mask is valid and non-zero
updateMask(r, m) == [ok |-> r.ok /\ m.ok, name |-> r.name, px |-> [p \in Pixels |->
               IF r.px[p].valid /\ m.px[p].valid /\ m.px[p].v.n # 0
               THEN r.px[p] ELSE Masked]]

----------------------------------------------------------------------------
(* Multi-band images: [bands, valid, px], px[p][b] a non-negative integer *)

\* (a - b) / (a + b)
ndUnnormalized(a, b) == Rat(a - b, 1)
nd(a, b) == Rat(a - b, a + b)

\* Image.normalizedDifference([b1, b2]): masked where the sum is zero or the
\* pixel is masked; rejected by the service when a band is absent
normalizedDifference(img, b1, b2) ==
    IF ~({b1, b2} \subseteq img.bands) THEN Invalid("nd")
    ELSE [ok |-> TRUE, name |-> "nd", px |-> [p \in Pixels |->
            IF img.valid[p] /\ img.px[p][b1] + img.px[p][b2] # 0
            THEN Val(nd(img.px[p][b1], img.px[p][b2])) ELSE Masked]]

----------------------------------------------------------------------------
(* The image collection held by the service *)

BeforeDates == {-67, -1}
AfterDates == {1, 25}
Days == {-247, -67, -1, 1, 30, 31}
Clouds == {19, 20, 30}
Scenes == {"green", "burnt"}

\* reflectances of one item at one pixel (even, so the mean of two is exact)
SceneSpectrum(scene, p) ==
    IF scene = "green"
    THEN [b \in S2Bands |-> CASE b = "B8" -> 72 [] b = "B12" -> 28 [] b = "B4" -> 20
                              [] b = "B3" -> 18 [] OTHER -> 16]
    ELSE IF p = 1
    THEN [b \in S2Bands |-> CASE b = "B8" -> 28 [] b = "B12" -> 72 [] b = "B4" -> 30
                              [] b = "B3" -> 26 [] OTHER -> 24]
    ELSE [b \in S2Bands |-> CASE b = "B8" -> 50 [] b = "B12" -> 50 [] b = "B4" -> 40
                              [] b = "B3" -> 36 [] OTHER -> 34]

\* items taken before the fire show unburnt ground
ItemPool ==
    {[t |-> d, cloud |-> c, hit |-> TRUE, scene |-> s] :
        d \in Days, c \in Clouds, s \in Scenes} \cup
    {[t |-> d, cloud |-> 19, hit |-> FALSE, scene |-> "green"] : d \in Days}

Items == {i \in ItemPool : i.t < 0 => i.scene = "green"}

RECURSIVE SubsetsUpTo(_, _)
SubsetsUpTo(S, k) ==
    IF k = 0 THEN {{}}
    ELSE LET prev == SubsetsUpTo(S, k - 1)
         IN prev \cup {c \cup {i} : c \in prev, i \in S}

Collections == SubsetsUpTo(Items, MaxItems)

\* the k-th smallest of the values f[i], i in I
KthSmallest(I, f, k) ==
    CHOOSE x \in {f[i] : i \in I} :
        /\ Cardinality({i \in I : f[i] < x}) < k
        /\ k <= Cardinality({i \in I : f[i] <= x})

\* ee.Reducer.median: the middle value, the mean of the two middle values
\* for an even count
MedianValue(I, f) ==
    LET n == Cardinality(I) IN
    IF n % 2 = 1 THEN KthSmallest(I, f, (n + 1) \div 2)
    ELSE (KthSmallest(I, f, n \div 2) + KthSmallest(I, f, n \div 2 + 1)) \div 2

\* the composite of a non-empty set of items
median_of_items(I) ==
    [bands |-> S2Bands, valid |-> [p \in Pixels |-> TRUE],
     px |-> [p \in Pixels |-> [b \in S2Bands |->
               MedianValue(I, [i \in I |-> SceneSpectrum(i.scene, p)[b]])]]]

\* an empty collection reduced to a fully masked image that keeps the bands
median_keep_bands(I) ==
    IF I = {} THEN [bands |-> S2Bands, valid |-> [p \in Pixels |-> FALSE],
                    px |-> [p \in Pixels |-> [b \in S2Bands |-> 0]]]
    ELSE median_of_items(I)

\* ImageCollection.median(): per pixel and band; no bands when nothing matched
median(I) ==
    IF I = {} THEN [bands |-> {}, valid |-> [p \in Pixels |-> FALSE],
                    px |-> [p \in Pixels |-> [b \in S2Bands |-> 0]]]
    ELSE median_of_items(I)

\* Image.clip(geometry)
clip(img, geom) == [img EXCEPT !.valid = [p \in Pixels |-> img.valid[p] /\ p \in geom]]

\* a date filter that keeps the end of the range
filterDateClosed(I, start, end) == {i \in I : start <= i.t /\ i.t <= end}

\* filterDate(start, end): start inclusive, end exclusive
filterDate(I, start, end) == {i \in I : start <= i.t /\ i.t < end}
filterBounds(I, geom) == {i \in I : i.hit}
filterCloudLt(I, pct) == {i \in I : i.cloud < pct}

before_items(coll, before_date, geom) ==
    filterCloudLt(filterBounds(filterDate(coll, before_date - LookbackDays, before_date),
                               geom), CloudBefore)
after_items(coll, after_date, geom) ==
    filterCloudLt(filterBounds(filterDate(coll, after_date, after_date + LookaheadDays),
                               geom), CloudAfter)

load_fire_datasets(coll, before_date, after_date, geom) ==
    [sentinel_before |-> clip(median(before_items(coll, before_date, geom)), geom),
     sentinel_after |-> clip(median(after_items(coll, after_date, geom)), geom)]

----------------------------------------------------------------------------
(* Band algebra *)

ZeroIndices == [k \in IndexKeys |-> Image(0)]

\* any(...) instead of all(...)
anyRequiredPresent(band_names) == required_bands \cap band_names # {}
allRequiredPresent(band_names) == required_bands \subseteq band_names

\* a failed band query issued a second time
band_query_calls_retry(query_fails) == IF query_fails THEN 2 ELSE 1

\* bandNames().getInfo() is issued once inside the try, whatever its outcome
band_query_calls(query_fails) == 1

\* dnbr taken as after minus before
calculate_fire_indices_reversed(before_img, after_img, query_fails) ==
    IF query_fails THEN ZeroIndices
    ELSE IF ~allRequiredPresent(before_img.bands) THEN ZeroIndices
    ELSE LET nbr_before == rename(normalizedDifference(before_img, nir_band, swir_band), "NBR_before")
             nbr_after == rename(normalizedDifference(after_img, nir_band, swir_band), "NBR_after")
         IN [nbr_before |-> nbr_before,
             nbr_after |-> nbr_after,
             dnbr |-> rename(subtract(nbr_after, nbr_before), "dNBR"),
             ndvi_before |-> rename(normalizedDifference(before_img, nir_band, red_band), "NDVI_before"),
             ndvi_after |-> rename(normalizedDifference(after_img, nir_band, red_band), "NDVI_after"),
             ndwi_before |-> rename(normalizedDifference(before_img, green_band, nir_band), "NDWI_before"),
             ndwi_after |-> rename(normalizedDifference(after_img, green_band, nir_band), "NDWI_after")]

\* query_fails: bandNames().getInfo() raised
calculate_fire_indices(before_img, after_img, query_fails) ==
    IF query_fails THEN ZeroIndices
    ELSE IF ~allRequiredPresent(before_img.bands) THEN ZeroIndices
    ELSE LET nbr_before == rename(normalizedDifference(before_img, nir_band, swir_band), "NBR_before")
             nbr_after == rename(normalizedDifference(after_img, nir_band, swir_band), "NBR_after")
         IN [nbr_before |-> nbr_before,
             nbr_after |-> nbr_after,
             dnbr |-> rename(subtract(nbr_before, nbr_after), "dNBR"),
             ndvi_before |-> rename(normalizedDifference(before_img, nir_band, red_band), "NDVI_before"),
             ndvi_after |-> rename(normalizedDifference(after_img, nir_band, red_band), "NDVI_after"),
             ndwi_before |-> rename(normalizedDifference(before_img, green_band, nir_band), "NDWI_before"),
             ndwi_after |-> rename(normalizedDifference(after_img, green_band, nir_band), "NDWI_after")]

----------------------------------------------------------------------------
(* Severity classification *)

T0 == Rat(-1, 10)
T1 == Rat(1, 10)
T2 == Rat(27, 100)
T3 == Rat(44, 100)
T4 == Rat(66, 100)

\* class 2 entered with gt instead of gte
classify_burn_severity_gt(dnbr) ==
    rename(where(where(where(where(where(where(dnbr,
        lt(dnbr, T0), 0),
        And(gte(dnbr, T0), lt(dnbr, T1)), 1),
        And(gt(dnbr, T1), lt(dnbr, T2)), 2),
        And(gte(dnbr, T2), lt(dnbr, T3)), 3),
        And(gte(dnbr, T3), lt(dnbr, T4)), 4),
        gte(dnbr, T4), 5), "burn_severity")

\* the values of classes 2 and 3 exchanged
classify_burn_severity_swapped(dnbr) ==
    rename(where(where(where(where(where(where(dnbr,
        lt(dnbr, T0), 0),
        And(gte(dnbr, T0), lt(dnbr, T1)), 1),
        And(gte(dnbr, T1), lt(dnbr, T2)), 3),
        And(gte(dnbr, T2), lt(dnbr, T3)), 2),
        And(gte(dnbr, T3), lt(dnbr, T4)), 4),
        gte(dnbr, T4), 5), "burn_severity")

\* both unburned bins labelled 0
classify_burn_severity_unburned0(dnbr) ==
    rename(where(where(where(where(where(where(dnbr,
        lt(dnbr, T0), 0),
        And(gte(dnbr, T0), lt(dnbr, T1)), 0),
        And(gte(dnbr, T1), lt(dnbr, T2)), 2),
        And(gte(dnbr, T2), lt(dnbr, T3)), 3),
        And(gte(dnbr, T3), lt(dnbr, T4)), 4),
        gte(dnbr, T4), 5), "burn_severity")

classify_burn_severity(dnbr) ==
    rename(where(where(where(where(where(where(dnbr,
        lt(dnbr, T0), 0),
        And(gte(dnbr, T0), lt(dnbr, T1)), 1),
        And(gte(dnbr, T1), lt(dnbr, T2)), 2),
        And(gte(dnbr, T2), lt(dnbr, T3)), 3),
        And(gte(dnbr, T3), lt(dnbr, T4)), 4),
        gte(dnbr, T4), 5), "burn_severity")

----------------------------------------------------------------------------
(* Area statistics *)

\* ee.Image.pixelArea() sampled at the reduction scale, in square metres
pixelArea == [ok |-> TRUE, name |-> "area", px |-> [p \in Pixels |-> Val(Rat(Scale * Scale, 1))]]

RECURSIVE SumPx(_, _)
SumPx(r, S) ==
    IF S = {} THEN Rat(0, 1)
    ELSE LET p == CHOOSE q \in S : TRUE
         IN IF r.px[p].valid THEN RAdd(r.px[p].v, SumPx(r, S \ {p}))
            ELSE SumPx(r, S \ {p})

\* reduceRegion without the geometry argument: the sum over the whole image
reduceRegionUnbounded(r, geom, maxPixels) ==
    IF r.ok THEN [ok |-> TRUE, sum |-> SumPx(r, Pixels)]
    ELSE [ok |-> FALSE, sum |-> Rat(0, 1)]

\* reduceRegion(Reducer.sum(), geometry, scale, maxPixels): the sum of the
\* unmasked pixels of the region; rejected when the region exceeds maxPixels
reduceRegion(r, geom, maxPixels) ==
    IF r.ok /\ Cardinality(geom) <= maxPixels
    THEN [ok |-> TRUE, sum |-> SumPx(r, geom)]
    ELSE [ok |-> FALSE, sum |-> Rat(0, 1)]

None == [None |-> TRUE]
range6 == 0..5
severity_key(i) == <<"severity_0", "severity_1", "severity_2", "severity_3",
                     "severity_4", "severity_5">>[i + 1]
severity_index(k) == CHOOSE i \in range6 : severity_key(i) = k

BurnedThresholdModerate == T2
BurnedThreshold == T1

\* the burned-area sum returned alone when there is no severity raster
fire_statistics_body_partial(ind, geom) ==
    IF "dnbr" \in DOMAIN ind
    THEN LET area_image == divide(pixelArea, SqmPerHectare)
             burned_area == updateMask(area_image, gte(ind["dnbr"], BurnedThreshold))
             burned_stats == reduceRegion(burned_area, geom, MaxPixels)
         IN IF "burn_severity" \in DOMAIN ind
            THEN [burned_area |-> burned_stats,
                  severity_stats |-> [k \in {severity_key(i) : i \in range6} |->
                      reduceRegion(updateMask(area_image,
                                              eq(ind["burn_severity"], Rat(severity_index(k), 1))),
                                   geom, MaxPixels)]]
            ELSE [burned_area |-> burned_stats]
    ELSE None

\* the body of the try block
fire_statistics_body(ind, geom) ==
    IF "dnbr" \in DOMAIN ind
    THEN LET dnbr == ind["dnbr"]
             area_image == divide(pixelArea, SqmPerHectare)
             burned_mask == gte(dnbr, BurnedThreshold)
             burned_area == updateMask(area_image, burned_mask)
             burned_stats == reduceRegion(burned_area, geom, MaxPixels)
         IN IF "burn_severity" \in DOMAIN ind
            THEN LET severity == ind["burn_severity"]
                     severity_stats == [k \in {severity_key(i) : i \in range6} |->
                         reduceRegion(updateMask(area_image,
                                                 eq(severity, Rat(severity_index(k), 1))),
                                      geom, MaxPixels)]
                 IN [burned_area |-> burned_stats, severity_stats |-> severity_stats]
            ELSE None
    ELSE None

\* the handler re-raising instead of returning None
calculate_fire_statistics_reraise(ind, geom, failed) ==
    IF failed THEN [ret |-> None, warned |-> FALSE, raised |-> TRUE]
    ELSE [ret |-> fire_statistics_body(ind, geom), warned |-> FALSE, raised |-> FALSE]

\* failed: an Earth Engine call inside the try block raised
calculate_fire_statistics(ind, geom, failed) ==
    IF failed THEN [ret |-> None, warned |-> TRUE, raised |-> FALSE]
    ELSE [ret |-> fire_statistics_body(ind, geom), warned |-> FALSE, raised |-> FALSE]

----------------------------------------------------------------------------
(* Earth Engine initialisation, auth/gee_auth.py *)

\* an unset secret, variable or argument (None)
Absent == "<unset>"
DefaultProjectId == "ee-jonahlipsitt"
ProjectIds == {Absent, "", "my-project"}

\* Python truth value of an optional string
Falsy(x) == x \in {Absent, ""}

\* no default for the environment variable
get_gee_project_id_nodefault(secret, env_id) == IF secret # Absent THEN secret ELSE env_id

\* the secret if there is one, else GEE_PROJECT_ID, else the built-in default
get_gee_project_id(secret, env_id) ==
    IF secret # Absent THEN secret
    ELSE IF env_id # Absent THEN env_id
    ELSE DefaultProjectId

InitOutcomes == {"ok", "ee_exception", "error"}

\* the exception that leaves the try body of initialize_ee, "none" if it
\* runs to its end.  first_init: outcome of the first ee.Initialize;
\* retry_ok: ee.Authenticate() and the second ee.Initialize both succeed
initialize_ee_try(project_id, env_id, service_account, creds_exist, first_init, retry_ok) ==
    LET pid == IF Falsy(project_id) THEN env_id ELSE project_id
    IN IF Falsy(pid) THEN "ValueError"
       ELSE IF service_account
       THEN (IF ~creds_exist THEN "ValueError"
             ELSE IF first_init = "ok" THEN "none"
             ELSE IF first_init = "ee_exception" THEN "EEException"
             ELSE "Exception")
       ELSE IF first_init = "ok" THEN "none"
       ELSE IF first_init = "ee_exception"
       THEN (IF retry_ok THEN "none" ELSE "EEException")
       ELSE "Exception"

\* test_ok: what test_connection() returns; its value is dropped
initialize_ee(project_id, env_id, service_account, creds_exist, first_init, retry_ok, test_ok) ==
    LET exc == initialize_ee_try(project_id, env_id, service_account, creds_exist, first_init, retry_ok)
    IN IF exc # "none" THEN [ret |-> FALSE, raised |-> "none"]
       ELSE [ret |-> TRUE, raised |-> "none"]

\* init_earth_engine() of the dashboard
init_earth_engine(secret, env_id, first_init, retry_ok, test_ok) ==
    LET success == initialize_ee(get_gee_project_id(secret, env_id), env_id, FALSE, FALSE, first_init, retry_ok, test_ok)
    IN IF success.raised # "none" THEN [ret |-> FALSE, warned |-> TRUE]
       ELSE [ret |-> success.ret, warned |-> ~success.ret]

\* environments of the dashboard process
StartupEnvs ==
    [secret : ProjectIds, env_id : ProjectIds, project_id : {Absent},
     use_service_account : {FALSE}, creds_exist : {FALSE},
     first_init : InitOutcomes, retry_ok : BOOLEAN, test_ok : BOOLEAN]

\* a local run without secret or variable, signed in or not
RequestEnvs ==
    {e \in StartupEnvs : /\ e.secret = Absent /\ e.env_id = Absent
                         /\ e.first_init \in {"ok", "error"}
                         /\ e.retry_ok /\ e.test_ok}

LocalEnv == CHOOSE e \in RequestEnvs : e.first_init = "ok"

\* environments and arguments of a direct call of initialize_ee
AuthEnvs ==
    [secret : {Absent}, env_id : ProjectIds, project_id : ProjectIds,
     use_service_account : BOOLEAN, creds_exist : BOOLEAN,
     first_init : InitOutcomes, retry_ok : BOOLEAN, test_ok : BOOLEAN]

----------------------------------------------------------------------------
(* The request: main() *)

EmptyDict == [k \in {} |-> None]

Init ==
    /\ pc = "main"
    /\ ee_env \in RequestEnvs
    /\ collection \in Collections
    /\ gee_available = FALSE
    /\ config = None
    /\ aoi = {}
    /\ imagery = None
    /\ indices = EmptyDict
    /\ stats = None
    /\ calls = <<>>
    /\ remote_calls = 0
    /\ warnings = 0
    /\ raised = FALSE
    /\ faults = {}

InitEarthEngine ==
    /\ pc = "main"
    /\ LET r == init_earth_engine(ee_env.secret, ee_env.env_id, ee_env.first_init,
                                  ee_env.retry_ok, ee_env.test_ok)
       IN /\ gee_available' = r.ret
          /\ warnings' = IF r.warned THEN warnings + 1 ELSE warnings
    /\ pc' = "sidebar"
    /\ calls' = Append(calls, "init_earth_engine")
    /\ UNCHANGED <<ee_env, collection, config, aoi, imagery, indices, stats, remote_calls, raised, faults>>

CreateSidebar ==
    /\ pc = "sidebar"
    /\ \E bd \in BeforeDates, ad \in AfterDates, sev \in BOOLEAN :
          config' = [before_date |-> bd, after_date |-> ad, show_severity |-> sev]
    /\ pc' = "aoi"
    /\ calls' = Append(calls, "create_sidebar")
    /\ UNCHANGED <<ee_env, collection, gee_available, aoi, imagery, indices, stats,
                   remote_calls, warnings, raised, faults>>

CreateFireAoi ==
    /\ pc = "aoi"
    /\ aoi' \in (IF gee_available THEN {PALISADES_FIRE_BBOX} ELSE {PALISADES_FIRE_BBOX, {}})
    /\ pc' = IF gee_available THEN "load" ELSE "demo"
    /\ calls' = Append(calls, "create_fire_aoi")
    /\ UNCHANGED <<ee_env, collection, gee_available, config, imagery, indices, stats,
                   remote_calls, warnings, raised, faults>>

LoadFireDatasets ==
    /\ pc = "load"
    /\ imagery' = load_fire_datasets(collection, config.before_date, config.after_date, aoi)
    /\ indices' = EmptyDict
    /\ pc' = "indices"
    /\ calls' = Append(calls, "load_fire_datasets")
    /\ UNCHANGED <<ee_env, collection, gee_available, config, aoi, stats, remote_calls,
                   warnings, raised, faults>>

CalculateFireIndices ==
    /\ pc = "indices"
    /\ \E query_fails \in BOOLEAN :
          /\ indices' = calculate_fire_indices(imagery.sentinel_before,
                                               imagery.sentinel_after, query_fails)
          /\ faults' = IF query_fails THEN faults \cup {"band_query"} ELSE faults
          /\ remote_calls' = remote_calls + band_query_calls(query_fails)
    /\ pc' = "classify"
    /\ calls' = Append(calls, "calculate_fire_indices")
    /\ UNCHANGED <<ee_env, collection, gee_available, config, aoi, imagery, stats,
                   warnings, raised>>

ClassifyBurnSeverity ==
    /\ pc = "classify"
    /\ IF config.show_severity /\ "dnbr" \in DOMAIN indices
       THEN /\ indices' = ("burn_severity" :> classify_burn_severity(indices["dnbr"])) @@ indices
            /\ calls' = Append(calls, "classify_burn_severity")
       ELSE UNCHANGED <<indices, calls>>
    /\ pc' = "render"
    /\ UNCHANGED <<ee_env, collection, gee_available, config, aoi, imagery, stats,
                   remote_calls, warnings, raised, faults>>

\* the four maps are drawn from imagery and indices; no statistics are requested
RenderMaps ==
    /\ pc = "render"
    /\ pc' = "done"
    /\ calls' = Append(calls, "render_maps")
    /\ UNCHANGED <<ee_env, collection, gee_available, config, aoi, imagery, indices, stats,
                   remote_calls, warnings, raised, faults>>

DemoMode ==
    /\ pc = "demo"
    /\ pc' = "done"
    /\ calls' = Append(calls, "demo_map")
    /\ UNCHANGED <<ee_env, collection, gee_available, config, aoi, imagery, indices, stats,
                   remote_calls, warnings, raised, faults>>

\* calculate_fire_statistics has no call site in main(); it is applied here to
\* the indices of the finished request
CalculateFireStatistics ==
    /\ pc = "done"
    /\ gee_available
    /\ \E failed \in BOOLEAN :
          LET r == calculate_fire_statistics(indices, aoi, failed)
          IN /\ stats' = r.ret
             /\ warnings' = IF r.warned THEN warnings + 1 ELSE warnings
             /\ raised' = r.raised
             /\ faults' = IF failed THEN faults \cup {"statistics"} ELSE faults
    /\ pc' = "stats_done"
    /\ UNCHANGED <<ee_env, collection, gee_available, config, aoi, imagery, indices,
                   calls, remote_calls>>

Next ==
    \/ InitEarthEngine
    \/ CreateSidebar
    \/ CreateFireAoi
    \/ LoadFireDatasets
    \/ CalculateFireIndices
    \/ ClassifyBurnSeverity
    \/ RenderMaps
    \/ DemoMode
    \/ CalculateFireStatistics

Spec == Init /\ [][Next]_vars

----------------------------------------------------------------------------
(* Startup of the dashboard in every environment *)

StartupCollections == SubsetsUpTo(Items, 1)

InitStartup ==
    /\ pc = "main"
    /\ ee_env \in StartupEnvs
    /\ collection \in StartupCollections
    /\ gee_available = FALSE
    /\ config = None
    /\ aoi = {}
    /\ imagery = None
    /\ indices = EmptyDict
    /\ stats = None
    /\ calls = <<>>
    /\ remote_calls = 0
    /\ warnings = 0
    /\ raised = FALSE
    /\ faults = {}

SpecStartup == InitStartup /\ [][Next]_vars

----------------------------------------------------------------------------
(* initialize_ee called on its own, auth/gee_auth.py *)

InitAuth ==
    /\ pc = "auth"
    /\ ee_env \in AuthEnvs
    /\ collection = {}
    /\ gee_available = FALSE
    /\ config = None
    /\ aoi = {}
    /\ imagery = None
    /\ indices = EmptyDict
    /\ stats = None
    /\ calls = <<>>
    /\ remote_calls = 0
    /\ warnings = 0
    /\ raised = FALSE
    /\ faults = {}

InitializeEe ==
    /\ pc = "auth"
    /\ LET r == initialize_ee(ee_env.project_id, ee_env.env_id, ee_env.use_service_account,
                              ee_env.creds_exist, ee_env.first_init, ee_env.retry_ok,
                              ee_env.test_ok)
       IN /\ gee_available' = r.ret
          /\ raised' = (r.raised # "none")
    /\ pc' = "auth_done"
    /\ calls' = Append(calls, "initialize_ee")
    /\ UNCHANGED <<ee_env, collection, config, aoi, imagery, indices, stats,
                   remote_calls, warnings, faults>>

NextAuth == InitializeEe

SpecAuth == InitAuth /\ [][NextAuth]_vars

----------------------------------------------------------------------------
(* The pipeline functions applied to arbitrary image pairs *)

BandVals == {0, 9, 11, 17, 28, 72, 73, 83, 127}
BandSets == {S2Bands, {}} \cup {S2Bands \ {b} : b \in required_bands}

\* odd pixels carry near-infrared a against b in the other bands, even
\* pixels a against c
UnitImage(bands, a, b, c) ==
    [bands |-> bands, valid |-> [p \in Pixels |-> TRUE],
     px |-> [p \in Pixels |-> [k \in S2Bands |->
               IF k = "B8" THEN a ELSE IF p % 2 = 1 THEN b ELSE c]]]

UnitImagery ==
    {[sentinel_before |-> UnitImage(S2Bands, a, b, d),
      sentinel_after |-> UnitImage(S2Bands, c, d, b)] :
        a \in BandVals, b \in BandVals, c \in BandVals, d \in BandVals} \cup
    {[sentinel_before |-> UnitImage(bb, 72, 28, 28),
      sentinel_after |-> UnitImage(ba, 28, 72, 50)] :
        bb \in BandSets, ba \in BandSets}

InitUnit ==
    /\ pc = "indices"
    /\ ee_env = LocalEnv
    /\ collection = {}
    /\ gee_available = TRUE
    /\ config = [before_date |-> -67, after_date |-> 25, show_severity |-> TRUE]
    /\ aoi = PALISADES_FIRE_BBOX
    /\ imagery \in UnitImagery
    /\ indices = EmptyDict
    /\ stats = None
    /\ calls = <<>>
    /\ remote_calls = 0
    /\ warnings = 0
    /\ raised = FALSE
    /\ faults = {}

NextUnit ==
    \/ CalculateFireIndices
    \/ ClassifyBurnSeverity
    \/ RenderMaps
    \/ CalculateFireStatistics

SpecUnit == InitUnit /\ [][NextUnit]_vars

----------------------------------------------------------------------------
(* Properties *)

IndicesReturned ==
    \/ pc \in {"classify", "render"}
    \/ pc \in {"done", "stats_done"} /\ gee_available

Classified == IndicesReturned /\ "burn_severity" \in DOMAIN indices
StatsReturned == pc = "stats_done" /\ "burned_area" \in DOMAIN stats

HasRequired(img) == {"B8", "B4", "B12", "B3"} \subseteq img.bands

\* the band query raised or the before image lacks a required band
FailSoft ==
    /\ IndicesReturned
    /\ ("band_query" \in faults \/ ~HasRequired(imagery.sentinel_before))

SevenKeys == {"nbr_before", "nbr_after", "dnbr", "ndvi_before", "ndvi_after",
              "ndwi_before", "ndwi_after"}

IsZeroImage(r) == r.ok /\ \A p \in Pixels : r.px[p].valid /\ r.px[p].v.n = 0

AllZeroSentinel(ind) ==
    /\ DOMAIN ind \ {"burn_severity"} = SevenKeys
    /\ \A k \in SevenKeys : IsZeroImage(ind[k])

\* the class table of the severity scale
TableClass(d) ==
    IF RLt(d, Rat(-1, 10)) THEN 0
    ELSE IF RLt(d, Rat(1, 10)) THEN 1
    ELSE IF RLt(d, Rat(27, 100)) THEN 2
    ELSE IF RLt(d, Rat(44, 100)) THEN 3
    ELSE IF RLt(d, Rat(66, 100)) THEN 4
    ELSE 5

Dnbr(p) == indices["dnbr"].px[p]
Sev(p) == indices["burn_severity"].px[p]

\* C1: every difference-index value gets the class of the fixed table, each
\* boundary value falling in the upper class.
C1_ClassTable ==
    Classified =>
        \A p \in Pixels :
            Dnbr(p).valid => Sev(p) = Val(Rat(TableClass(Dnbr(p).v), 1))

\* a pixel sits exactly on the boundary 0.27 and is classified 3
C1_Witness ==
    /\ Classified
    /\ \E p \in Pixels :
          /\ Dnbr(p).valid
          /\ REq(Dnbr(p).v, Rat(27, 100))
          /\ Sev(p) = Val(Rat(3, 1))

\* C2: every output value is an integer in 0..5, and the class never
\* decreases when the difference index increases.
C2_RangeMonotone ==
    Classified =>
        /\ \A p \in Pixels :
              Dnbr(p).valid => Sev(p).valid /\ Sev(p).v.d = 1 /\ Sev(p).v.n \in 0..5
        /\ \A p \in Pixels, q \in Pixels :
              (Dnbr(p).valid /\ Dnbr(q).valid /\ ~RLt(Dnbr(q).v, Dnbr(p).v))
                  => Sev(p).v.n <= Sev(q).v.n

C2_Witness ==
    /\ Classified
    /\ \E p \in Pixels, q \in Pixels :
          /\ Dnbr(p).valid /\ Dnbr(q).valid
          /\ RLt(Dnbr(p).v, Dnbr(q).v)
          /\ Sev(p).v.n = 2 /\ Sev(q).v.n = 3

\* C3: when the band query raises or the before image lacks a required band,
\* calculate_fire_indices returns exactly the seven keys bound to the zero
\* image, and raises nothing.
C3_BandErrorSentinel ==
    (pc = "classify" /\ FailSoft) =>
        /\ DOMAIN indices = SevenKeys
        /\ AllZeroSentinel(indices)
        /\ ~raised

C3_Witness ==
    /\ pc = "classify"
    /\ "band_query" \notin faults
    /\ imagery.sentinel_before.bands # {}
    /\ ~HasRequired(imagery.sentinel_before)
    /\ AllZeroSentinel(indices)

\* C4: when either input image lacks a required band the result is the
\* all-zero sentinel under the seven keys.
C4_EitherImageSentinel ==
    (pc = "classify" /\ (~HasRequired(imagery.sentinel_before)
                         \/ ~HasRequired(imagery.sentinel_after)))
        => AllZeroSentinel(indices)

\* C5: the sentinel difference index of the fail-soft path is classified 1 at
\* every pixel.
C5_SentinelClass1 ==
    (FailSoft /\ Classified) => \A p \in Pixels : Sev(p) = Val(Rat(1, 1))

C5_Witness ==
    /\ FailSoft
    /\ Classified
    /\ IsZeroImage(indices["dnbr"])
    /\ \A p \in Pixels : Sev(p).v.n = 1

RegionArea == Rat(Cardinality(PALISADES_FIRE_BBOX) * 900, 10000)
ClassArea(i) == stats["severity_stats"][severity_key(i)]

\* C6 as stated: the sentinel rasters classify to class 0 everywhere and all
\* area statistics are zero.
C6_SentinelClass0 ==
    /\ (FailSoft /\ Classified) => \A p \in Pixels : Sev(p) = Val(Rat(0, 1))
    /\ (FailSoft /\ StatsReturned) =>
          /\ stats["burned_area"].sum.n = 0
          /\ \A i \in 0..5 : ClassArea(i).sum.n = 0

\* C6 amended: the sentinel rasters pass through the classifier and the
\* aggregator without an error path; the class is 1 everywhere, the burned
\* area is zero and class 1 holds the whole region.
C6_SentinelFlows ==
    /\ (FailSoft /\ Classified) =>
          /\ ~raised
          /\ \A p \in Pixels : Sev(p) = Val(Rat(1, 1))
    /\ (FailSoft /\ Classified /\ pc = "stats_done" /\ "statistics" \notin faults) =>
          /\ StatsReturned
          /\ ~raised /\ warnings = 0
          /\ stats["burned_area"].ok /\ stats["burned_area"].sum.n = 0
          /\ \A i \in 0..5 :
                /\ ClassArea(i).ok
                /\ i # 1 => ClassArea(i).sum.n = 0
                /\ i = 1 => REq(ClassArea(i).sum, RegionArea)

C6_Witness ==
    /\ FailSoft
    /\ StatsReturned
    /\ "band_query" \in faults
    /\ HasRequired(imagery.sentinel_before)
    /\ REq(ClassArea(1).sum, RegionArea)

SumClasses2to5 ==
    RAdd(RAdd(ClassArea(2).sum, ClassArea(3).sum),
         RAdd(ClassArea(4).sum, ClassArea(5).sum))

C8_StatisticsFailureCaught ==
    "statistics" \in faults => (pc = "stats_done" /\ stats = None /\ warnings = 1 /\ ~raised)

C8_Witness ==
    /\ "statistics" \in faults
    /\ Classified
    /\ ~FailSoft
    /\ stats = None

NoBeforeItems ==
    /\ pc \notin {"main", "sidebar", "aoi", "load", "demo"}
    /\ gee_available
    /\ \A i \in collection :
          ~(/\ config.before_date - 180 <= i.t /\ i.t < config.before_date
            /\ i.hit
            /\ i.cloud < 20)

InUnitRange(x) == x.d > 0 /\ -(x.d) <= x.n /\ x.n <= x.d

NdKeys == {"nbr_before", "nbr_after", "ndvi_before", "ndvi_after",
           "ndwi_before", "ndwi_after"}

\* C10: every normalized difference lies in [-1, 1], and exchanging the two
\* bands negates it: with equal red and green, NDWI = nd(green, nir) is the
\* negation of NDVI = nd(nir, red).
C10_NormalizedDifference ==
    (IndicesReturned /\ ~FailSoft) =>
        /\ \A k \in NdKeys, p \in Pixels :
              indices[k].px[p].valid => InUnitRange(indices[k].px[p].v)
        /\ \A p \in Pixels :
              (/\ imagery.sentinel_before.px[p]["B3"] = imagery.sentinel_before.px[p]["B4"]
               /\ indices["ndvi_before"].px[p].valid
               /\ indices["ndwi_before"].px[p].valid)
                  => REq(indices["ndwi_before"].px[p].v,
                         RNeg(indices["ndvi_before"].px[p].v))

C10_Witness ==
    /\ IndicesReturned
    /\ ~FailSoft
    /\ \E p \in Pixels :
          /\ imagery.sentinel_before.px[p]["B3"] = imagery.sentinel_before.px[p]["B4"]
          /\ indices["ndvi_before"].px[p].valid
          /\ indices["ndvi_before"].px[p].v.n > 0
          /\ indices["ndwi_before"].px[p].v.n < 0
          /\ indices["nbr_after"].px[p].valid
          /\ indices["nbr_after"].px[p].v.n = -(indices["nbr_after"].px[p].v.d)

ExpectedNd(img, p, b1, b2) == Rat(img.px[p][b1] - img.px[p][b2], img.px[p][b1] + img.px[p][b2])

IndexIs(k, p, x) == indices[k].px[p].valid /\ REq(indices[k].px[p].v, x)

\* C11: past the band check, NBR = nd(B8, B12), NDVI = nd(B8, B4) and
\* NDWI = nd(B3, B8) for both images, and dnbr = nbr_before - nbr_after, so a
\* pixel whose burn ratio dropped has a positive dnbr.
C11_BandOrderAndSign ==
    (IndicesReturned /\ ~FailSoft) =>
        \A p \in Pixels :
            /\ imagery.sentinel_before.valid[p] =>
                  /\ IndexIs("nbr_before", p, ExpectedNd(imagery.sentinel_before, p, "B8", "B12"))
                  /\ IndexIs("ndvi_before", p, ExpectedNd(imagery.sentinel_before, p, "B8", "B4"))
                  /\ IndexIs("ndwi_before", p, ExpectedNd(imagery.sentinel_before, p, "B3", "B8"))
            /\ (HasRequired(imagery.sentinel_after) /\ imagery.sentinel_after.valid[p]) =>
                  /\ IndexIs("nbr_after", p, ExpectedNd(imagery.sentinel_after, p, "B8", "B12"))
                  /\ IndexIs("ndvi_after", p, ExpectedNd(imagery.sentinel_after, p, "B8", "B4"))
                  /\ IndexIs("ndwi_after", p, ExpectedNd(imagery.sentinel_after, p, "B3", "B8"))
            /\ (indices["nbr_before"].px[p].valid /\ indices["nbr_after"].px[p].valid) =>
                  /\ Dnbr(p).valid
                  /\ Dnbr(p).v.d > 0
                  /\ Dnbr(p).v.n * indices["nbr_before"].px[p].v.d * indices["nbr_after"].px[p].v.d
                       = Dnbr(p).v.d *
                           (indices["nbr_before"].px[p].v.n * indices["nbr_after"].px[p].v.d
                            - indices["nbr_after"].px[p].v.n * indices["nbr_before"].px[p].v.d)
                  /\ RLt(indices["nbr_after"].px[p].v, indices["nbr_before"].px[p].v)
                        => Dnbr(p).v.n > 0

C11_Witness ==
    /\ IndicesReturned
    /\ ~FailSoft
    /\ HasRequired(imagery.sentinel_after)
    /\ \E p \in PALISADES_FIRE_BBOX :
          /\ indices["nbr_before"].px[p].valid /\ indices["nbr_after"].px[p].valid
          /\ RLt(indices["nbr_after"].px[p].v, indices["nbr_before"].px[p].v)
          /\ Dnbr(p).v.n > 0
          /\ ~REq(indices["nbr_before"].px[p].v, indices["ndvi_before"].px[p].v)

Loaded == \E k \in 1..Len(calls) : calls[k] = "load_fire_datasets"

Eligible(i, pct) == i.hit /\ i.cloud < pct

ClosedBefore == {i \in collection : /\ config.before_date - 180 <= i.t
                                    /\ i.t <= config.before_date
                                    /\ Eligible(i, 20)}
ClosedAfter == {i \in collection : /\ config.after_date <= i.t
                                   /\ i.t <= config.after_date + 30
                                   /\ Eligible(i, 30)}
HalfOpenBefore == {i \in collection : /\ config.before_date - 180 <= i.t
                                      /\ i.t < config.before_date
                                      /\ Eligible(i, 20)}
HalfOpenAfter == {i \in collection : /\ config.after_date <= i.t
                                     /\ i.t < config.after_date + 30
                                     /\ Eligible(i, 30)}

Composite(I) == clip(median(I), aoi)

\* C12 as stated: the items that contribute to the before composite are those
\* of the closed interval [before_date - 180, before_date] that intersect the
\* region with cloud < 20, and to the after composite those of the closed
\* interval [after_date, after_date + 30] with cloud < 30.
C12_ClosedIntervals ==
    Loaded =>
        /\ before_items(collection, config.before_date, aoi) = ClosedBefore
        /\ after_items(collection, config.after_date, aoi) = ClosedAfter
        /\ imagery.sentinel_before = Composite(ClosedBefore)
        /\ imagery.sentinel_after = Composite(ClosedAfter)

\* C12 amended: the intervals are closed at their start and open at their end,
\* [before_date - 180, before_date) and [after_date, after_date + 30); an item
\* stamped exactly at the end of a range does not contribute.
C12_HalfOpenIntervals ==
    Loaded =>
        /\ before_items(collection, config.before_date, aoi) = HalfOpenBefore
        /\ after_items(collection, config.after_date, aoi) = HalfOpenAfter
        /\ imagery.sentinel_before = Composite(HalfOpenBefore)
        /\ imagery.sentinel_after = Composite(HalfOpenAfter)

C12_Witness ==
    /\ Loaded
    /\ ClosedAfter # HalfOpenAfter
    /\ HalfOpenAfter # {}
    /\ imagery.sentinel_after = Composite(HalfOpenAfter)
    /\ imagery.sentinel_after # Composite(ClosedAfter)

CalledInOrder(names) ==
    \E f \in [1..Len(names) -> 1..Len(calls)] :
        /\ \A k \in 1..Len(names) : calls[f[k]] = names[k]
        /\ \A k \in 1..(Len(names) - 1) : f[k] < f[k + 1]

RequestEnded == pc \in {"done", "stats_done"}

\* C13: a request handled by main with Earth Engine available has run
\* load_fire_datasets, calculate_fire_indices, classify_burn_severity and
\* calculate_fire_statistics in this order when it ends.
C13_FourStagesInOrder ==
    (RequestEnded /\ gee_available) =>
        CalledInOrder(<<"load_fire_datasets", "calculate_fire_indices",
                        "classify_burn_severity", "calculate_fire_statistics">>)

Called(name) == \E k \in 1..Len(calls) : calls[k] = name

\* C14: within a request, load_fire_datasets and classify_burn_severity issue
\* no remote call and calculate_fire_indices issues exactly one band-name
\* query; a failed query yields the sentinel result, is not raised and is not
\* issued again.
C14_OneBandQueryNoRetry ==
    /\ remote_calls = (IF Called("calculate_fire_indices") THEN 1 ELSE 0)
    /\ "band_query" \in faults =>
          /\ Called("calculate_fire_indices")
          /\ AllZeroSentinel(indices)
          /\ ~raised
          /\ remote_calls = 1

C14_Witness ==
    /\ Called("load_fire_datasets")
    /\ Called("calculate_fire_indices")
    /\ Called("classify_burn_severity")
    /\ "band_query" \in faults
    /\ HasRequired(imagery.sentinel_before)
    /\ AllZeroSentinel(indices)
    /\ remote_calls = 1

\* C15: when calculate_fire_statistics has returned its result, it has issued
\* one remote call for the burned-area sum and one for each of the six
\* per-class sums, on top of the band-name query of the request.
C15_StatisticsMaterialized ==
    StatsReturned => remote_calls >= 1 + 1 + 6

InitializeEeReturned == pc = "auth_done"

MissingParameter ==
    \/ ee_env.project_id = Absent /\ ee_env.env_id = Absent
    \/ ee_env.use_service_account /\ ~ee_env.creds_exist

\* C16: a call of initialize_ee with no project_id argument and no
\* GEE_PROJECT_ID variable, or with use_service_account and no credentials
\* file, ends with ValueError raised to the caller.
C16_RaisesValueError ==
    (InitializeEeReturned /\ MissingParameter) => raised

IdMissing == ee_env.secret = Absent /\ ee_env.env_id = Absent

ClientSignsIn ==
    \/ ee_env.first_init = "ok"
    \/ ee_env.first_init = "ee_exception" /\ ee_env.retry_ok

PipelineInvoked ==
    \/ Called("load_fire_datasets")
    \/ Called("calculate_fire_indices")
    \/ Called("classify_burn_severity")

\* C17 as stated: without secret and without GEE_PROJECT_ID the application
\* stops at startup and none of load_fire_datasets, calculate_fire_indices,
\* classify_burn_severity is invoked.
C17_MissingIdStops ==
    IdMissing => ~PipelineInvoked

\* C17 amended: without secret and without GEE_PROJECT_ID the application
\* goes on with the built-in project identifier.  Nothing is raised; Earth
\* Engine is available exactly when the client signs in, the request then
\* runs load_fire_datasets and calculate_fire_indices, and otherwise it warns
\* and ends in DEMO mode without invoking the pipeline.
C17_MissingIdFallsBack ==
    IdMissing =>
        /\ ~raised
        /\ pc # "main" => (gee_available <=> ClientSignsIn)
        /\ RequestEnded =>
              IF gee_available
              THEN Called("load_fire_datasets") /\ Called("calculate_fire_indices")
              ELSE ~PipelineInvoked /\ Called("demo_map") /\ warnings >= 1

C17_Witness ==
    /\ IdMissing
    /\ RequestEnded
    /\ gee_available
    /\ Called("load_fire_datasets")
    /\ Called("calculate_fire_indices")
    /\ Called("classify_burn_severity")

\* C18: initialize_ee returns True only if test_connection succeeded.
C18_TrueOnlyIfConnectionTested ==
    (InitializeEeReturned /\ gee_available) => ee_env.test_ok

StatisticsCalled == pc = "stats_done"

SixSeverityKeys == {"severity_0", "severity_1", "severity_2", "severity_3",
                    "severity_4", "severity_5"}

\* C19: calculate_fire_statistics returns a result other than None exactly
\* when nothing raised and indices holds both dnbr and burn_severity; the
\* result then has the keys burned_area and severity_stats, the latter with
\* exactly severity_0 .. severity_5.  With dnbr present and burn_severity
\* absent it returns None.
C19_ResultShape ==
    StatisticsCalled =>
        /\ stats # None <=> /\ "statistics" \notin faults
                            /\ "dnbr" \in DOMAIN indices
                            /\ "burn_severity" \in DOMAIN indices
        /\ stats # None =>
              /\ DOMAIN stats = {"burned_area", "severity_stats"}
              /\ DOMAIN stats["severity_stats"] = SixSeverityKeys
        /\ ("dnbr" \in DOMAIN indices /\ "burn_severity" \notin DOMAIN indices)
              => stats = None

C19_Witness ==
    /\ StatisticsCalled
    /\ "statistics" \notin faults
    /\ ~config.show_severity
    /\ "dnbr" \in DOMAIN indices
    /\ "burn_severity" \notin DOMAIN indices
    /\ stats = None

C19_WitnessFull ==
    /\ StatisticsCalled
    /\ stats # None
    /\ DOMAIN stats["severity_stats"] = SixSeverityKeys

====
